---- MODULE Spec2Model ----
(***************************************************************************)
(* Model of the bedrock-training-pipeline: the Step Functions state        *)
(* machine built by createStateMachine (lib/bedrock-training-pipeline-     *)
(* stack.ts) and the data job it runs as an ECS task (app/src/index.ts).   *)
(*                                                                         *)
(* The execution's JSON state ("$") is the variable data.  A JSON path     *)
(* that does not resolve is the value Absent.  Time is counted in minutes  *)
(* and advances only where the definition waits: inside the ECS task and   *)
(* in the Wait state.                                                      *)
(***************************************************************************)
EXTENDS Integers, Sequences, FiniteSets, TLC

VARIABLES
    pc,             \* current state of the state machine (ASL state name)
    execStatus,     \* "RUNNING", "SUCCEEDED" or "FAILED"
    execError,      \* error attached to a failed execution
    data,           \* the execution's JSON state "$"
    elapsed,        \* minutes since the execution started
    notifications,  \* messages published to the alert topic, in order
    nRuns,          \* times RunTrainingTask started the ECS task
    nWaits,         \* completed WaitForTraining states
    nPolls,         \* getModelCustomizationJob calls issued
    nNonTerminal,   \* polls that answered SUBMITTED or IN_PROGRESS
    polledArn,      \* JobIdentifier of the last poll
    mpc,            \* position of main() inside the data job
    exitCode,       \* exit status of the data job process
    rawCount,       \* rawExamples.length
    cleanedCount,   \* cleanedExamples.length
    promptCount,    \* prompts.length
    nQuery,         \* calls of queryTrainingData
    nWrite,         \* calls of saveTrainingDataset
    nSubmit,        \* calls of createModelCustomizationJob
    s3Object,       \* number of prompts in the stored dataset, -1 if none
    jobArn,         \* handle returned by createModelCustomizationJob
    jobStatus,      \* status of the training job at the training service
    jobReason,      \* failure reason of the training job
    nClean,         \* calls of cleanExamples
    nDistill,       \* calls of distillExamples
    stdout,         \* lines the data job printed, with the values each carries
    rpc,            \* position of the data job when followed record by record
    minPromptCount, \* config.minPromptCount of that data job
    rawExamples,    \* records returned by queryTrainingData
    noNulls,        \* result of removeNulls
    stripped,       \* result of stripHtml
    unique,         \* result of filterDuplicates
    cleanedExamples,\* result of cleanExamples
    seenArticleIds, \* DataCleaner.seenArticleIds
    examples,       \* argument of distillExamples
    loopI,          \* loop variable i of distillExamples
    inFlight,       \* positions whose teacher call has not resolved
    results,        \* value of each resolved generateTeacherOutput promise
    outOfOrder,     \* a promise resolved while an earlier one of its batch was pending
    prompts,        \* the prompts array of distillExamples
    dataset,        \* lines of the object written to storage, <<>> if none
    qpc,            \* position of queryTrainingData
    qState,         \* last QueryExecution.Status the retriever saw
    qElapsed,       \* Date.now() - startTime of waitForQueryCompletion, in ms
    nStart,         \* StartQueryExecution calls issued
    pages,          \* data rows of the query result, page by page
    nextPage,       \* page the next GetQueryResults call returns
    fetched,        \* the results array of getQueryResults
    qError,         \* error queryTrainingData threw
    submissions,    \* CreateModelCustomizationJob requests accepted, all runs
    config,         \* the TrainingConfig of the run, once it is used to save
    objectKey,      \* Bucket and Key of the object the run put in storage
    result          \* the ProcessingResult saveTrainingDataset returned

vars == <<pc, execStatus, execError, data, elapsed, notifications, nRuns,
          nWaits, nPolls, nNonTerminal, polledArn, mpc, exitCode, rawCount,
          cleanedCount, promptCount, nQuery, nWrite, nSubmit, s3Object,
          jobArn, jobStatus, jobReason, nClean, nDistill, stdout, rpc,
          minPromptCount, rawExamples, noNulls, stripped, unique,
          cleanedExamples, seenArticleIds, examples, loopI, inFlight, results,
          outOfOrder, prompts, dataset, qpc, qState, qElapsed, nStart, pages,
          nextPage, fetched, qError, submissions, config, objectKey, result>>

orchVars == <<pc, execStatus, execError, data, notifications, nRuns, nWaits,
              nPolls, nNonTerminal, polledArn>>

mainVars == <<mpc, exitCode, rawCount, cleanedCount, promptCount, nQuery,
              nWrite, nSubmit, s3Object, jobArn>>

envVars == <<jobStatus, jobReason>>

logVars == <<nClean, nDistill, stdout>>

cleanVars == <<noNulls, stripped, unique, cleanedExamples, seenArticleIds>>

distillVars == <<examples, loopI, inFlight, results, outOfOrder, prompts>>

storeVars == <<dataset, config, objectKey, result>>

jobVars == <<rpc, minPromptCount, rawExamples, cleanVars, distillVars, storeVars>>

fetchVars == <<qpc, qState, qElapsed, nStart, pages, nextPage, fetched, qError>>

recVars == <<jobVars, fetchVars, submissions>>

coreVars == <<orchVars, mainVars, envVars, elapsed, logVars>>

runVars == <<coreVars, fetchVars, submissions>>

----------------------------------------------------------------------------
(* Program constants *)

\* timeout: cdk.Duration.hours(4)
TimeoutMinutes == 240

\* WaitForTraining: cdk.Duration.minutes(5)
WaitMinutes == 5

\* props.minPromptCount ?? 100, handed to the task as MIN_PROMPT_COUNT
MinPromptCount == 100

(* Bounds of the model *)

\* example counts range over MinPromptCount - CountSpread .. MinPromptCount + CountSpread
CountSpread == 1

\* number of distinct failure reasons the training service may report
NumReasons == 2

\* number of distinct job ARNs
NumArns == 2

----------------------------------------------------------------------------
(* Value domains *)

Absent == "absent"

Counts == (MinPromptCount - CountSpread)..(MinPromptCount + CountSpread)

Arns == {"arn" \o ToString(i) : i \in 1..NumArns}

Reasons == {"reason" \o ToString(i) : i \in 1..NumReasons}

NonTerminalStatuses == {"SUBMITTED", "IN_PROGRESS"}

TerminalStatuses == {"COMPLETED", "FAILED", "STOPPED"}

JobStatuses == NonTerminalStatuses \cup TerminalStatuses

NoTaskExecution == [Succeeded |-> Absent, BedrockJobArn |-> Absent]

NoTrainingStatus == [status |-> Absent, failureReason |-> Absent]

\* the execution input carries only lookBackDays and publicationId
InitialData ==
    [taskExecution |-> NoTaskExecution, validation |-> Absent,
     trainingStatus |-> NoTrainingStatus, MessageId |-> Absent]

\* the output of a task state without resultPath replaces "$"
PublishResult ==
    [taskExecution |-> NoTaskExecution, validation |-> Absent,
     trainingStatus |-> NoTrainingStatus, MessageId |-> "msg"]

Min(a, b) == IF a < b THEN a ELSE b

Running == execStatus = "RUNNING" /\ elapsed < TimeoutMinutes

----------------------------------------------------------------------------
(* The data job: main() of app/src/index.ts, run as the ECS task *)

\* one console.log line: its text and the values interpolated into it
Line(text, fields) == [text |-> text, fields |-> fields]

ConsoleLog(lines) == stdout' = stdout \o lines

\* variant: the comparison is off by one
BelowMinimum_OffByOne(n) == n < MinPromptCount - 1

\* the three minimum-count checks of main: length < minPromptCount
BelowMinimum(n) == n < MinPromptCount

InMain(l) == pc = "RunTrainingTask.sync" /\ Running /\ mpc = l

\* variant: the catch swallows the error and the process exits normally
MainFail_ExitZero ==
    /\ mpc' = "exited"
    /\ exitCode' = 0

\* a throw inside the try block reaches the catch, which calls process.exit(1)
MainFail ==
    /\ mpc' = "exited"
    /\ exitCode' = 1

\* Step 1: dataService.queryTrainingData(config) returns the rows or throws
MainQuery ==
    /\ InMain("query")
    /\ nQuery' = nQuery + 1
    /\ \/ /\ \E n \in Counts : rawCount' = n
          /\ mpc' = "checkRaw"
          /\ ConsoleLog(<<Line("Step 1: Querying data from Athena...", {}),
                     Line("Retrieved N raw examples", {"rawCount"})>>)
          /\ UNCHANGED exitCode
       \/ /\ MainFail
          /\ ConsoleLog(<<Line("Step 1: Querying data from Athena...", {})>>)
          /\ UNCHANGED rawCount
    /\ UNCHANGED <<cleanedCount, promptCount, nWrite, nSubmit, s3Object, jobArn>>
    /\ UNCHANGED <<orchVars, envVars, elapsed, nClean, nDistill>>
    /\ UNCHANGED recVars

\* if (rawExamples.length < minPromptCount) throw
MainCheckRaw ==
    /\ InMain("checkRaw")
    /\ IF BelowMinimum(rawCount)
          THEN MainFail
          ELSE mpc' = "clean" /\ UNCHANGED exitCode
    /\ UNCHANGED <<rawCount, cleanedCount, promptCount, nQuery, nWrite, nSubmit,
                   s3Object, jobArn>>
    /\ UNCHANGED <<orchVars, envVars, elapsed>>
    /\ UNCHANGED logVars
    /\ UNCHANGED recVars

\* Step 2: dataCleaner.cleanExamples(rawExamples) only filters records
MainClean ==
    /\ InMain("clean")
    /\ \E n \in Counts : n <= rawCount /\ cleanedCount' = n
    /\ nClean' = nClean + 1
    /\ mpc' = "checkCleaned"
    /\ ConsoleLog(<<Line("Step 2: Cleaning and validating data...", {}),
               Line("After cleaning: N examples", {"cleanedCount"})>>)
    /\ UNCHANGED <<exitCode, rawCount, promptCount, nQuery, nWrite, nSubmit,
                   s3Object, jobArn>>
    /\ UNCHANGED <<orchVars, envVars, elapsed, nDistill>>
    /\ UNCHANGED recVars

\* if (cleanedExamples.length < minPromptCount) throw
MainCheckCleaned ==
    /\ InMain("checkCleaned")
    /\ IF BelowMinimum(cleanedCount)
          THEN MainFail
          ELSE mpc' = "distill" /\ UNCHANGED exitCode
    /\ UNCHANGED <<rawCount, cleanedCount, promptCount, nQuery, nWrite, nSubmit,
                   s3Object, jobArn>>
    /\ UNCHANGED <<orchVars, envVars, elapsed>>
    /\ UNCHANGED logVars
    /\ UNCHANGED recVars

\* Step 3: distillExamples returns one prompt per cleaned example
MainDistill ==
    /\ InMain("distill")
    /\ promptCount' = cleanedCount
    /\ nDistill' = nDistill + 1
    /\ mpc' = "checkPrompts"
    /\ ConsoleLog(<<Line("Step 3: Generating teacher model outputs (distillation)...", {}),
               Line("Created N distillation prompts", {"promptCount"})>>)
    /\ UNCHANGED <<exitCode, rawCount, cleanedCount, nQuery, nWrite, nSubmit,
                   s3Object, jobArn>>
    /\ UNCHANGED <<orchVars, envVars, elapsed, nClean>>
    /\ UNCHANGED recVars

\* Step 4: if (prompts.length < minPromptCount) process.exit(1)
MainCheckPrompts ==
    /\ InMain("checkPrompts")
    /\ IF BelowMinimum(promptCount)
          THEN MainFail
          ELSE mpc' = "save" /\ UNCHANGED exitCode
    /\ UNCHANGED <<rawCount, cleanedCount, promptCount, nQuery, nWrite, nSubmit,
                   s3Object, jobArn>>
    /\ UNCHANGED <<orchVars, envVars, elapsed>>
    /\ UNCHANGED logVars
    /\ UNCHANGED recVars

\* Step 5: storageService.saveTrainingDataset(prompts, config): one PutObject
MainSave ==
    /\ InMain("save")
    /\ nWrite' = nWrite + 1
    /\ \/ /\ s3Object' = promptCount
          /\ mpc' = "submit"
          /\ ConsoleLog(<<Line("Step 5: Saving training dataset to S3...", {}),
                     Line("Saved N prompts to LOCATION", {"promptCount", "s3Location"})>>)
          /\ UNCHANGED exitCode
       \/ /\ MainFail
          /\ ConsoleLog(<<Line("Step 5: Saving training dataset to S3...", {})>>)
          /\ UNCHANGED s3Object
    /\ UNCHANGED <<rawCount, cleanedCount, promptCount, nQuery, nSubmit, jobArn>>
    /\ UNCHANGED <<orchVars, envVars, elapsed, nClean, nDistill>>
    /\ UNCHANGED recVars

\* Step 6: bedrockService.createModelCustomizationJob: response.jobArn ||
\* "unknown"; an error is logged and rethrown
MainSubmit ==
    /\ InMain("submit")
    /\ nSubmit' = nSubmit + 1
    /\ \/ /\ \E a \in Arns \cup {"unknown"} : jobArn' = a
          /\ jobStatus' = "SUBMITTED"
          /\ mpc' = "done"
          /\ ConsoleLog(<<Line("Step 6: Initiating Bedrock model training...", {}),
                     Line("Creating Bedrock model customization job for LOCATION",
                          {"s3Location"}),
                     Line("Bedrock training job created: ARN", {"jobArn"}),
                     Line("Bedrock training job started: ARN", {"jobArn"})>>)
          /\ UNCHANGED exitCode
       \/ /\ MainFail
          /\ ConsoleLog(<<Line("Step 6: Initiating Bedrock model training...", {}),
                     Line("Creating Bedrock model customization job for LOCATION",
                          {"s3Location"})>>)
          /\ UNCHANGED <<jobArn, jobStatus>>
    /\ UNCHANGED <<rawCount, cleanedCount, promptCount, nQuery, nWrite, s3Object>>
    /\ UNCHANGED <<orchVars, jobReason, elapsed, nClean, nDistill>>
    /\ UNCHANGED recVars

\* console.log("Training pipeline completed successfully"); process.exit(0)
MainExit ==
    /\ InMain("done")
    /\ mpc' = "exited"
    /\ exitCode' = 0
    /\ ConsoleLog(<<Line("Training pipeline completed successfully", {})>>)
    /\ UNCHANGED <<rawCount, cleanedCount, promptCount, nQuery, nWrite, nSubmit,
                   s3Object, jobArn>>
    /\ UNCHANGED <<orchVars, envVars, elapsed, nClean, nDistill>>
    /\ UNCHANGED recVars

\* wall-clock time passing while the ECS task runs
TaskTimePasses ==
    /\ pc = "RunTrainingTask.sync" /\ Running
    /\ mpc # "exited"
    /\ elapsed' = Min(elapsed + WaitMinutes, TimeoutMinutes)
    /\ UNCHANGED <<orchVars, mainVars, envVars>>
    /\ UNCHANGED logVars
    /\ UNCHANGED recVars

----------------------------------------------------------------------------
(* The training job at the training service (external collaborator) *)

\* SUBMITTED -> IN_PROGRESS -> {COMPLETED | FAILED | STOPPED}; a failed job
\* may or may not report a failure reason
JobProgress ==
    /\ execStatus = "RUNNING"
    /\ \/ /\ jobStatus = "SUBMITTED"
          /\ jobStatus' = "IN_PROGRESS"
          /\ UNCHANGED jobReason
       \/ /\ jobStatus = "IN_PROGRESS"
          /\ \E st \in {"COMPLETED", "STOPPED"} : jobStatus' = st
          /\ UNCHANGED jobReason
       \/ /\ jobStatus = "IN_PROGRESS"
          /\ jobStatus' = "FAILED"
          /\ \E r \in Reasons \cup {Absent} : jobReason' = r
    /\ UNCHANGED <<orchVars, mainVars, elapsed>>
    /\ UNCHANGED logVars
    /\ UNCHANGED recVars

\* answer of getModelCustomizationJob for the job in its current state
JobDescription ==
    [status |-> jobStatus,
     failureReason |-> IF jobStatus = "FAILED" THEN jobReason ELSE Absent]

----------------------------------------------------------------------------
(* The state machine of createStateMachine *)

\* an error no Catch handles ends the execution
FailExecution(err) ==
    /\ execStatus' = "FAILED"
    /\ execError' = err

\* what the ECS integration may hand back as the task's result: the data job
\* itself writes neither field, so each may be missing
HostTaskOutputs ==
    [Succeeded : {"true", "false", Absent}, BedrockJobArn : Arns \cup {Absent}]

\* RunTrainingTask (RUN_JOB): entering the state starts the ECS task, whose
\* process begins main() afresh
RunTrainingTaskStart ==
    /\ pc = "RunTrainingTask" /\ Running
    /\ pc' = "RunTrainingTask.sync"
    /\ mpc' = "query"
    /\ exitCode' = -1
    /\ nRuns' = nRuns + 1
    /\ ConsoleLog(<<Line("Starting training pipeline with config: CONFIG", {"config"})>>)
    /\ UNCHANGED <<execStatus, execError, data, notifications, nWaits, nPolls,
                   nNonTerminal, polledArn>>
    /\ UNCHANGED <<rawCount, cleanedCount, promptCount, nQuery, nWrite, nSubmit,
                   s3Object, jobArn>>
    /\ UNCHANGED <<envVars, elapsed, nClean, nDistill>>
    /\ UNCHANGED recVars

\* RunTrainingTask (RUN_JOB): the task stopped; the state has no Catch and no Retry, and
\* resultPath is $.taskExecution
RunTrainingTaskEnd ==
    /\ pc = "RunTrainingTask.sync" /\ Running
    /\ mpc = "exited"
    /\ IF exitCode # 0
          THEN /\ FailExecution("States.TaskFailed")
               /\ UNCHANGED <<pc, data>>
          ELSE /\ \E out \in HostTaskOutputs :
                      data' = [data EXCEPT !.taskExecution = out]
               /\ pc' = "CheckTaskSuccess"
               /\ UNCHANGED <<execStatus, execError>>
    /\ UNCHANGED <<notifications, nRuns, nWaits, nPolls, nNonTerminal, polledArn>>
    /\ UNCHANGED <<mainVars, envVars, elapsed>>
    /\ UNCHANGED logVars
    /\ UNCHANGED recVars

\* variant: a failed task is sent back to RunTrainingTask
CheckTaskSuccessNext_Retry(succeeded) ==
    IF succeeded = "true" THEN "TaskSucceeded" ELSE "RunTrainingTask"

\* CheckTaskSuccess: booleanEquals($.taskExecution.Succeeded, true), otherwise
\* NotifyEcsFailure
CheckTaskSuccessNext(succeeded) ==
    IF succeeded = "true" THEN "TaskSucceeded" ELSE "NotifyEcsFailure"

CheckTaskSuccess ==
    /\ pc = "CheckTaskSuccess" /\ Running
    /\ IF data.taskExecution.Succeeded = Absent
          THEN /\ FailExecution("States.Runtime")
               /\ UNCHANGED pc
          ELSE /\ pc' = CheckTaskSuccessNext(data.taskExecution.Succeeded)
               /\ UNCHANGED <<execStatus, execError>>
    /\ UNCHANGED <<data, notifications, nRuns, nWaits, nPolls, nNonTerminal,
                   polledArn>>
    /\ UNCHANGED <<mainVars, envVars, elapsed>>
    /\ UNCHANGED logVars
    /\ UNCHANGED recVars

\* variant: the monitoring chain starts at the status check
TrainBedrockModelStart_NoWait == "CheckTrainingStatus"

\* trainBedrockModel = waitForTraining.next(checkTrainingStatus).next(...)
TrainBedrockModelStart == "WaitForTraining"

\* TaskSucceeded (Pass): result {status: "SUCCESS"} at $.validation
TaskSucceeded ==
    /\ pc = "TaskSucceeded" /\ Running
    /\ data' = [data EXCEPT !.validation = "SUCCESS"]
    /\ pc' = TrainBedrockModelStart
    /\ UNCHANGED <<execStatus, execError, notifications, nRuns, nWaits, nPolls,
                   nNonTerminal, polledArn>>
    /\ UNCHANGED <<mainVars, envVars, elapsed>>
    /\ UNCHANGED logVars
    /\ UNCHANGED recVars

\* WaitForTraining: a fixed delay, then CheckTrainingStatus
WaitForTraining ==
    /\ pc = "WaitForTraining" /\ Running
    /\ elapsed' = Min(elapsed + WaitMinutes, TimeoutMinutes)
    /\ nWaits' = nWaits + 1
    /\ pc' = "CheckTrainingStatus"
    /\ UNCHANGED <<execStatus, execError, data, notifications, nRuns, nPolls,
                   nNonTerminal, polledArn>>
    /\ UNCHANGED <<mainVars, envVars>>
    /\ UNCHANGED logVars
    /\ UNCHANGED recVars

\* CheckTrainingStatus: bedrock getModelCustomizationJob with JobIdentifier
\* $.taskExecution.BedrockJobArn, resultPath $.trainingStatus, no Catch and no
\* Retry.  The call fails on a transport error and for an identifier that is
\* not the job's.
CheckTrainingStatus ==
    /\ pc = "CheckTrainingStatus" /\ Running
    /\ IF data.taskExecution.BedrockJobArn = Absent
          THEN /\ FailExecution("States.Runtime")
               /\ UNCHANGED <<pc, data, nPolls, nNonTerminal, polledArn>>
          ELSE /\ nPolls' = nPolls + 1
               /\ polledArn' = data.taskExecution.BedrockJobArn
               /\ \/ /\ data.taskExecution.BedrockJobArn = jobArn
                     /\ data' = [data EXCEPT !.trainingStatus = JobDescription]
                     /\ nNonTerminal' =
                           IF jobStatus \in NonTerminalStatuses
                              THEN nNonTerminal + 1 ELSE nNonTerminal
                     /\ pc' = "HandleTrainingCompletion"
                     /\ UNCHANGED <<execStatus, execError>>
                  \/ /\ FailExecution("States.TaskFailed")
                     /\ UNCHANGED <<pc, data, nNonTerminal>>
    /\ UNCHANGED <<notifications, nRuns, nWaits>>
    /\ UNCHANGED <<mainVars, envVars, elapsed>>
    /\ UNCHANGED logVars
    /\ UNCHANGED recVars

\* variant: every status other than FAILED counts as success
HandleTrainingCompletionNext_NotFailed(status) ==
    IF status # "FAILED" THEN "TrainingSucceeded" ELSE "NotifyFailure"

\* HandleTrainingCompletion: COMPLETED -> TrainingSucceeded, FAILED ->
\* NotifyFailure, otherwise WaitForTraining
HandleTrainingCompletionNext(status) ==
    IF status = "COMPLETED" THEN "TrainingSucceeded"
    ELSE IF status = "FAILED" THEN "NotifyFailure"
    ELSE "WaitForTraining"

HandleTrainingCompletion ==
    /\ pc = "HandleTrainingCompletion" /\ Running
    /\ pc' = HandleTrainingCompletionNext(data.trainingStatus.status)
    /\ UNCHANGED <<execStatus, execError, data, notifications, nRuns, nWaits,
                   nPolls, nNonTerminal, polledArn>>
    /\ UNCHANGED <<mainVars, envVars, elapsed>>
    /\ UNCHANGED logVars
    /\ UNCHANGED recVars

\* TrainingSucceeded (Succeed)
TrainingSucceeded ==
    /\ pc = "TrainingSucceeded" /\ Running
    /\ execStatus' = "SUCCEEDED"
    /\ UNCHANGED <<pc, execError, data, notifications, nRuns, nWaits, nPolls,
                   nNonTerminal, polledArn>>
    /\ UNCHANGED <<mainVars, envVars, elapsed>>
    /\ UNCHANGED logVars
    /\ UNCHANGED recVars

\* message of NotifyFailure: reason is the path $.trainingStatus.failureReason
NotifyFailureMessage(d) ==
    [subject |-> "Bedrock Training Job Failure",
     default |-> "Bedrock training job failed.",
     field |-> "reason",
     value |-> d.trainingStatus.failureReason]

\* NotifyFailure (SnsPublish, no resultPath): a path of the message that does
\* not resolve fails the state; the publish result becomes "$"
NotifyFailure ==
    /\ pc = "NotifyFailure" /\ Running
    /\ IF data.trainingStatus.failureReason = Absent
          THEN /\ FailExecution("States.Runtime")
               /\ UNCHANGED <<pc, data, notifications>>
          ELSE /\ notifications' = Append(notifications, NotifyFailureMessage(data))
               /\ data' = PublishResult
               /\ pc' = "TrainingFailed"
               /\ UNCHANGED <<execStatus, execError>>
    /\ UNCHANGED <<nRuns, nWaits, nPolls, nNonTerminal, polledArn>>
    /\ UNCHANGED <<mainVars, envVars, elapsed>>
    /\ UNCHANGED logVars
    /\ UNCHANGED recVars

\* error of TrainingFailed: JsonPath.stringAt("$.trainingStatus.failureReason")
\* handed to the error property; it is rendered either as the literal path
\* text or as a path resolved against the state the Fail state receives
TrainingFailedErrors(d) ==
    {"$.trainingStatus.failureReason",
     IF d.trainingStatus.failureReason = Absent
        THEN "States.Runtime" ELSE d.trainingStatus.failureReason}

\* TrainingFailed (Fail)
TrainingFailed ==
    /\ pc = "TrainingFailed" /\ Running
    /\ \E e \in TrainingFailedErrors(data) : FailExecution(e)
    /\ UNCHANGED <<pc, data, notifications, nRuns, nWaits, nPolls, nNonTerminal,
                   polledArn>>
    /\ UNCHANGED <<mainVars, envVars, elapsed>>
    /\ UNCHANGED logVars
    /\ UNCHANGED recVars

\* message of NotifyEcsFailure: fixed texts
NotifyEcsFailureMessage ==
    [subject |-> "ECS Task Failure",
     default |-> "ECS task failed during training pipeline execution.",
     field |-> "error",
     value |-> "The ECS task encountered an error or failed validation."]

\* NotifyEcsFailure (SnsPublish, no resultPath)
NotifyEcsFailure ==
    /\ pc = "NotifyEcsFailure" /\ Running
    /\ notifications' = Append(notifications, NotifyEcsFailureMessage)
    /\ data' = PublishResult
    /\ pc' = "TaskFailed"
    /\ UNCHANGED <<execStatus, execError, nRuns, nWaits, nPolls, nNonTerminal,
                   polledArn>>
    /\ UNCHANGED <<mainVars, envVars, elapsed>>
    /\ UNCHANGED logVars
    /\ UNCHANGED recVars

\* TaskFailed (Fail) with a fixed error text
TaskFailed ==
    /\ pc = "TaskFailed" /\ Running
    /\ FailExecution("The training task encountered an error or failed validation")
    /\ UNCHANGED <<pc, data, notifications, nRuns, nWaits, nPolls, nNonTerminal,
                   polledArn>>
    /\ UNCHANGED <<mainVars, envVars, elapsed>>
    /\ UNCHANGED logVars
    /\ UNCHANGED recVars

\* variant: a state machine without a timeout
TimedOut_Never == FALSE

\* the state machine's timeout: the host aborts the execution
TimedOut == elapsed >= TimeoutMinutes

WorkflowTimeout ==
    /\ execStatus = "RUNNING"
    /\ TimedOut
    /\ FailExecution("States.Timeout")
    /\ UNCHANGED <<pc, data, notifications, nRuns, nWaits, nPolls, nNonTerminal,
                   polledArn>>
    /\ UNCHANGED <<mainVars, envVars, elapsed>>
    /\ UNCHANGED logVars
    /\ UNCHANGED recVars

----------------------------------------------------------------------------
(* Records of the data job *)

\* A string of a record is kept by what the code looks at: s names the text
\* left after conversion to plain text and trimming, plain is its length,
\* extra the number of characters that conversion and trimming remove (tags,
\* surrounding white space), space tells that these are white space only,
\* upper counts the letters A-Z and quotes the double quotes.
Text(s, plain, extra, space, upper, quotes) ==
    [s |-> s, plain |-> plain, extra |-> extra, space |-> space,
     upper |-> upper, quotes |-> quotes]

EmptyText == Text("", 0, 0, TRUE, 0, 0)

\* string.length
Length(t) == t.plain + t.extra

\* string.trim()
Trim(t) ==
    IF ~t.space THEN t
    ELSE IF t.plain = 0 THEN EmptyText
    ELSE [t EXCEPT !.extra = 0]

\* convert(html, htmlToTextOptions).trim()
ConvertTrim(t) ==
    IF t.plain = 0 THEN EmptyText ELSE [t EXCEPT !.extra = 0, !.space = TRUE]

\* a JavaScript string is falsy when it is empty
Falsy(t) == Length(t) = 0

\* content.substring(0, n)
Substring(t, n) == [s |-> t.s, chars |-> Min(Length(t), n)]

TrainingExample(id, title, content, publication, date, metadata) ==
    [articleId |-> id, title |-> title, content |-> content,
     publication |-> publication, publishedDate |-> date, metadata |-> metadata]

\* {...base, ...over}: keys of the later object win
Spread(base, over) ==
    [k \in DOMAIN base \cup DOMAIN over |->
        IF k \in DOMAIN over THEN over[k] ELSE base[k]]

NoMetadata == [k \in {} |-> ""]

SeqToSet(q) == {q[i] : i \in 1..Len(q)}

----------------------------------------------------------------------------
(* DataCleaner *)

\* the predicate of removeNulls
HasAllFields(e) ==
    /\ e.articleId # ""
    /\ ~Falsy(e.title)
    /\ ~Falsy(e.content)
    /\ ~Falsy(Trim(e.title))
    /\ ~Falsy(Trim(e.content))
    /\ e.publication # ""
    /\ e.publishedDate # ""

\* examples.filter(...): the records that have every field, in order
RemoveNulls(q) == SelectSeq(q, HasAllFields)

\* stripHtml: title and content converted to plain text and trimmed
StripHtml(q) ==
    [i \in 1..Len(q) |->
        [q[i] EXCEPT !.title = ConvertTrim(q[i].title),
                     !.content = ConvertTrim(q[i].content)]]

\* variant: the id of a kept record is not remembered
RECURSIVE UniqueFrom_ForgetsSeen(_, _, _)
UniqueFrom_ForgetsSeen(q, i, seen) ==
    IF i > Len(q) THEN <<>>
    ELSE IF q[i].articleId \in seen THEN UniqueFrom_ForgetsSeen(q, i + 1, seen)
    ELSE <<q[i]>> \o UniqueFrom_ForgetsSeen(q, i + 1, seen)

\* the loop of filterDuplicates, from position i with the ids seen so far
RECURSIVE UniqueFrom(_, _, _)
UniqueFrom(q, i, seen) ==
    IF i > Len(q) THEN <<>>
    ELSE IF q[i].articleId \in seen THEN UniqueFrom(q, i + 1, seen)
    ELSE <<q[i]>> \o UniqueFrom(q, i + 1, seen \cup {q[i].articleId})

\* variant: the last record of an article is kept instead of the first
FilterDuplicates_KeepsLast(q) ==
    LET r == [i \in 1..Len(q) |-> q[Len(q) + 1 - i]]
        u == UniqueFrom(r, 1, {})
    IN  [i \in 1..Len(u) |-> u[Len(u) + 1 - i]]

\* variant: the set is not emptied
Cleared_Kept(seen) == seen

\* this.seenArticleIds.clear()
Cleared(seen) == {}

\* filterDuplicates: seenArticleIds.clear(), then keep the unseen ids
FilterDuplicates(q) == UniqueFrom(q, 1, Cleared(seenArticleIds))

\* variant: the ratio test also rejects a title at exactly 0.8
IsValid_RatioInclusive(e) ==
    /\ ~(Length(e.content) < 50 \/ Length(e.title) < 5)
    /\ ~(e.title.upper * 10 >= 8 * Length(e.title) /\ Length(e.title) > 20)

\* the predicate of validateEntitiesAndQuotes; unbalanced quotes only warn
IsValid(e) ==
    /\ ~(Length(e.content) < 50 \/ Length(e.title) < 5)
    /\ ~(e.title.upper * 10 > 8 * Length(e.title) /\ Length(e.title) > 20)

ValidateEntitiesAndQuotes(q) == SelectSeq(q, IsValid)

\* variant: validation runs on the records as retrieved, before stripping
CleanExamples_ValidateFirst(q) ==
    /\ noNulls' = RemoveNulls(q)
    /\ stripped' = StripHtml(noNulls')
    /\ unique' = FilterDuplicates(stripped')
    /\ seenArticleIds' = Cleared(seenArticleIds)
                            \cup {stripped'[i].articleId : i \in 1..Len(stripped')}
    /\ cleanedExamples' =
          StripHtml(ValidateEntitiesAndQuotes(FilterDuplicates(noNulls')))

\* cleanExamples(q): removeNulls, stripHtml, filterDuplicates and
\* validateEntitiesAndQuotes, each on the result of the one before
CleanExamples(q) ==
    /\ noNulls' = RemoveNulls(q)
    /\ stripped' = StripHtml(noNulls')
    /\ unique' = FilterDuplicates(stripped')
    /\ seenArticleIds' = Cleared(seenArticleIds)
                            \cup {stripped'[i].articleId : i \in 1..Len(stripped')}
    /\ cleanedExamples' = ValidateEntitiesAndQuotes(unique')

----------------------------------------------------------------------------
(* DistillationService *)

\* maxConcurrentRequests: 5 in main, and the constructor's default
MaxConcurrentRequests == 5

\* content.substring(0, 500) in createStudentPrompt
StudentPromptChars == 500

\* process.env.TEACHER_MODEL_ID || "anthropic.claude-3-5-sonnet-20241022-v2:0"
TeacherModelId == "anthropic.claude-3-5-sonnet-20241022-v2:0"

\* createStudentPrompt(example)
CreateStudentPrompt(e) ==
    [template |-> "student",
     content |-> Substring(e.content, StudentPromptChars),
     ellipsis |-> Length(e.content) > StudentPromptChars,
     publication |-> e.publication]

\* what one InvokeModel call may do: answer with a text, answer with white
\* space only, or fail (network, decode or backend error)
TeacherOutcomes ==
    {[ok |-> TRUE, text |-> Text("Teacher headline", 16, 2, TRUE, 1, 0),
      error |-> ""],
     [ok |-> TRUE, text |-> Text("", 0, 3, TRUE, 0, 0), error |-> ""],
     [ok |-> FALSE, text |-> EmptyText, error |-> "teacher unavailable"]}

\* variant: the fallback example is built without the record's own prompt
GenerateTeacherOutput_FallbackPrompt(e, o) ==
    IF o.ok
       THEN [prompt |-> CreateStudentPrompt(e),
             completion |-> IF Falsy(Trim(o.text)) THEN e.title ELSE Trim(o.text),
             metadata |-> Spread([articleId |-> e.articleId,
                                  publication |-> e.publication,
                                  publishedDate |-> e.publishedDate,
                                  originalTitle |-> e.title,
                                  teacherModel |-> TeacherModelId], e.metadata)]
       ELSE [prompt |-> [CreateStudentPrompt(e) EXCEPT !.template = "fallback"],
             completion |-> e.title,
             metadata |-> Spread([articleId |-> e.articleId,
                                  publication |-> e.publication,
                                  publishedDate |-> e.publishedDate,
                                  teacherModelError |-> o.error], e.metadata)]

\* variant: the fallback example is dropped in favour of an empty label
GenerateTeacherOutput_NoFallback(e, o) ==
    IF o.ok
       THEN [prompt |-> CreateStudentPrompt(e),
             completion |-> Trim(o.text),
             metadata |-> Spread([articleId |-> e.articleId,
                                  publication |-> e.publication,
                                  publishedDate |-> e.publishedDate,
                                  originalTitle |-> e.title,
                                  teacherModel |-> TeacherModelId], e.metadata)]
       ELSE [prompt |-> CreateStudentPrompt(e),
             completion |-> EmptyText,
             metadata |-> Spread([articleId |-> e.articleId,
                                  publication |-> e.publication,
                                  publishedDate |-> e.publishedDate], e.metadata)]

\* generateTeacherOutput(example) for an outcome o of the teacher call: the
\* try branch with text?.trim() || example.title, or the catch branch
GenerateTeacherOutput(e, o) ==
    IF o.ok
       THEN [prompt |-> CreateStudentPrompt(e),
             completion |-> IF Falsy(Trim(o.text)) THEN e.title ELSE Trim(o.text),
             metadata |-> Spread([articleId |-> e.articleId,
                                  publication |-> e.publication,
                                  publishedDate |-> e.publishedDate,
                                  originalTitle |-> e.title,
                                  teacherModel |-> TeacherModelId], e.metadata)]
       ELSE [prompt |-> CreateStudentPrompt(e),
             completion |-> e.title,
             metadata |-> Spread([articleId |-> e.articleId,
                                  publication |-> e.publication,
                                  publishedDate |-> e.publishedDate,
                                  teacherModelError |-> o.error], e.metadata)]

\* variant: the slice takes one example too many
Batch_OneMore(i) == (i + 1)..Min(i + MaxConcurrentRequests + 1, Len(examples))

\* positions of examples.slice(i, i + maxConcurrentRequests), counted from 1
Batch(i) == (i + 1)..Min(i + MaxConcurrentRequests, Len(examples))

\* variant: the results are taken in reverse order
BatchResults_Reversed(i) ==
    [j \in 1..Cardinality(Batch(i)) |->
        results[i + Cardinality(Batch(i)) + 1 - j].value]

\* await Promise.all(batchPromises): the values in the order of the batch
BatchResults(i) == [j \in 1..Cardinality(Batch(i)) |-> results[i + j].value]

\* variant: the loop stops one batch early
LoopContinues_StopsEarly(i) == i + MaxConcurrentRequests < Len(examples)

\* the loop condition i < examples.length
LoopContinues(i) == i < Len(examples)

\* one turn of the for loop: batch.map(generateTeacherOutput) issues every
\* call of the batch; after the last batch distillExamples returns prompts
DistillLoop ==
    /\ rpc = "loop"
    /\ IF LoopContinues(loopI)
          THEN /\ inFlight' = inFlight \cup Batch(loopI)
               /\ rpc' = "await"
          ELSE /\ rpc' = "checkPrompts"
               /\ UNCHANGED inFlight
    /\ UNCHANGED <<minPromptCount, rawExamples, cleanVars, examples, loopI,
                   results, outOfOrder, prompts, storeVars>>
    /\ UNCHANGED runVars

\* the teacher call of position k resolves, in any order within the batch;
\* generateTeacherOutput never rejects
TeacherResolves ==
    /\ rpc = "await"
    /\ \E k \in inFlight : \E o \in TeacherOutcomes :
          /\ inFlight' = inFlight \ {k}
          /\ results' = (k :> [value |-> GenerateTeacherOutput(examples[k], o),
                               outcome |-> o]) @@ results
          /\ outOfOrder' = (outOfOrder \/ \E j \in inFlight : j < k)
    /\ UNCHANGED <<rpc, minPromptCount, rawExamples, cleanVars, examples, loopI,
                   prompts, storeVars>>
    /\ UNCHANGED runVars

\* Promise.all resolved: prompts.push(...batchResults); i += maxConcurrentRequests
DistillBatchDone ==
    /\ rpc = "await"
    /\ Batch(loopI) \cap inFlight = {}
    /\ prompts' = prompts \o BatchResults(loopI)
    /\ loopI' = loopI + MaxConcurrentRequests
    /\ rpc' = "loop"
    /\ UNCHANGED <<minPromptCount, rawExamples, cleanVars, examples, inFlight,
                   results, outOfOrder, storeVars>>
    /\ UNCHANGED runVars

----------------------------------------------------------------------------
(* main(), record by record *)

\* longest query result followed record by record
MaxRaw == 3

\* longest input of distillExamples followed: more than one batch
MaxExamples == 6

\* sequences over S of length at most n
BoundedSeq(S, n) == UNION {[1..k -> S] : k \in 0..n}

\* records the query may return: a record at the validation minimum, a second
\* record of the same article, a record whose markup hides a short content, a
\* record without an article id, and a record whose attributes map names
\* another article
RawPool ==
    {TrainingExample("a1", Text("t1", 5, 0, TRUE, 1, 0),
                     Text("c1", 50, 0, TRUE, 2, 0), "pub1", "2024-01-01",
                     NoMetadata),
     TrainingExample("a1", Text("t1b", 21, 0, TRUE, 16, 1),
                     Text("c1b", 501, 0, TRUE, 5, 0), "pub1", "2024-01-02",
                     NoMetadata),
     TrainingExample("a2", Text("t2", 5, 7, FALSE, 1, 0),
                     Text("c2", 49, 12, FALSE, 1, 0), "pub2", "2024-01-03",
                     NoMetadata),
     TrainingExample("", Text("t3", 8, 0, TRUE, 1, 0),
                     Text("c3", 60, 0, TRUE, 2, 0), "pub1", "2024-01-04",
                     NoMetadata),
     TrainingExample("a3", Text("t4", 6, 2, TRUE, 1, 2),
                     Text("c4", 60, 9, FALSE, 3, 0), "pub2", "2024-01-05",
                     [articleId |-> "a1", section |-> "news"])}

\* cleaned records handed to distillExamples: a long content without
\* attributes, and a content of exactly 500 characters whose attributes map
\* carries keys the service also writes
DistillPool ==
    {TrainingExample("a1", Text("t1b", 21, 0, TRUE, 16, 1),
                     Text("c1b", 501, 0, TRUE, 5, 0), "pub1", "2024-01-02",
                     NoMetadata),
     TrainingExample("a4", Text("t5", 9, 0, TRUE, 1, 0),
                     Text("c5", 500, 0, TRUE, 4, 0), "pub2", "2024-01-06",
                     [articleId |-> "a1", teacherModelError |-> "stale"])}

\* const rawExamples = await dataService.queryTrainingData(...)
JobQuery ==
    /\ rpc = "query"
    /\ \/ /\ \E q \in BoundedSeq(RawPool, MaxRaw) : rawExamples' = q
          /\ rpc' = "checkRaw"
       \/ /\ rpc' = "exit1"
          /\ UNCHANGED rawExamples
    /\ UNCHANGED <<minPromptCount, cleanVars, distillVars, storeVars>>
    /\ UNCHANGED runVars

\* if (rawExamples.length < minPromptCount) throw
JobCheckRaw ==
    /\ rpc = "checkRaw"
    /\ rpc' = IF Len(rawExamples) < minPromptCount THEN "exit1" ELSE "clean"
    /\ UNCHANGED <<minPromptCount, rawExamples, cleanVars, distillVars, storeVars>>
    /\ UNCHANGED runVars

\* const cleanedExamples = dataCleaner.cleanExamples(rawExamples)
JobClean ==
    /\ rpc = "clean"
    /\ CleanExamples(rawExamples)
    /\ rpc' = "checkCleaned"
    /\ UNCHANGED <<minPromptCount, rawExamples, distillVars, storeVars>>
    /\ UNCHANGED runVars

\* variant: the check after cleaning lets a short list through
JobCheckCleaned_NoThrow ==
    /\ rpc = "checkCleaned"
    /\ rpc' = "distill"
    /\ UNCHANGED <<minPromptCount, rawExamples, cleanVars, distillVars, storeVars>>
    /\ UNCHANGED runVars

\* if (cleanedExamples.length < minPromptCount) throw
JobCheckCleaned ==
    /\ rpc = "checkCleaned"
    /\ rpc' = IF Len(cleanedExamples) < minPromptCount THEN "exit1" ELSE "distill"
    /\ UNCHANGED <<minPromptCount, rawExamples, cleanVars, distillVars, storeVars>>
    /\ UNCHANGED runVars

\* const prompts = await distillationService.distillExamples(cleanedExamples)
JobDistill ==
    /\ rpc = "distill"
    /\ examples' = cleanedExamples
    /\ loopI' = 0
    /\ prompts' = <<>>
    /\ results' = <<>>
    /\ outOfOrder' = FALSE
    /\ rpc' = "loop"
    /\ UNCHANGED <<minPromptCount, rawExamples, cleanVars, inFlight, storeVars>>
    /\ UNCHANGED runVars

\* if (prompts.length < minPromptCount) { ...; process.exit(1) }
JobCheckPrompts ==
    /\ rpc = "checkPrompts"
    /\ rpc' = IF Len(prompts) < minPromptCount THEN "exit1" ELSE "save"
    /\ UNCHANGED <<minPromptCount, rawExamples, cleanVars, distillVars, storeVars>>
    /\ UNCHANGED runVars

\* JSON.stringify(prompt): one line of the JSONL body
JsonLine(p) == [json |-> p]

\* variant: the body is cut before its last line
JsonLines_Truncated(q) == [i \in 1..(Len(q) - 1) |-> JsonLine(q[i])]

\* prompts.map((prompt) => JSON.stringify(prompt)).join("\n")
JsonLines(q) == [i \in 1..Len(q) |-> JsonLine(q[i])]

----------------------------------------------------------------------------
(* One DataCleaner, called more than once *)

\* calls of cleanExamples followed on one cleaner
MaxCleanCalls == 2

\* longest input of one of these calls
MaxCleanInput == 2

\* records at the limits of validateEntitiesAndQuotes: a title of 5 with a
\* content of 50, a title of 20 upper case letters, a title of 25 with 20 of
\* them upper case, a title of 21 with 17 upper case, a content of 49 in a
\* second record of article a1, a title of 4
LimitPool ==
    {TrainingExample("a1", Text("t1", 5, 0, TRUE, 1, 0),
                     Text("c1", 50, 0, TRUE, 2, 0), "pub1", "2024-01-01",
                     NoMetadata),
     TrainingExample("b1", Text("T20", 20, 0, TRUE, 20, 0),
                     Text("c6", 50, 0, TRUE, 2, 0), "pub1", "2024-02-01",
                     NoMetadata),
     TrainingExample("b2", Text("T25", 25, 0, TRUE, 20, 0),
                     Text("c7", 50, 0, TRUE, 2, 1), "pub1", "2024-02-02",
                     NoMetadata),
     TrainingExample("b3", Text("T21", 21, 0, TRUE, 17, 0),
                     Text("c8", 80, 0, TRUE, 2, 0), "pub1", "2024-02-03",
                     NoMetadata),
     TrainingExample("a1", Text("t9", 30, 0, TRUE, 1, 0),
                     Text("c9", 49, 0, TRUE, 2, 0), "pub1", "2024-02-04",
                     NoMetadata),
     TrainingExample("b5", Text("t10", 4, 0, TRUE, 1, 0),
                     Text("c10", 90, 0, TRUE, 2, 0), "pub1", "2024-02-05",
                     NoMetadata)}

\* the five console.log lines of cleanExamples(q)
CleanLog(q) ==
    <<Line("Starting cleaning process for " \o ToString(Len(q)) \o " examples",
           {"length"}),
      Line("After null removal: " \o ToString(Len(noNulls')) \o " examples",
           {"length"}),
      Line("After HTML stripping: " \o ToString(Len(stripped')) \o " examples",
           {"length"}),
      Line("After duplicate filtering: " \o ToString(Len(unique')) \o " examples",
           {"length"}),
      Line("After entity/quote validation: "
              \o ToString(Len(cleanedExamples')) \o " examples", {"length"})>>

\* dataCleaner.cleanExamples(q) on a cleaner that may have been used before
CleanerCall ==
    /\ nClean < MaxCleanCalls
    /\ \E q \in BoundedSeq(LimitPool, MaxCleanInput) :
          /\ rawExamples' = q
          /\ CleanExamples(q)
          /\ ConsoleLog(CleanLog(q))
    /\ nClean' = nClean + 1
    /\ UNCHANGED <<rpc, minPromptCount, distillVars, storeVars>>
    /\ UNCHANGED <<orchVars, mainVars, envVars, elapsed, nDistill, fetchVars,
                   submissions>>

----------------------------------------------------------------------------
(* DataService: the retriever *)

\* maxWaitTime: number = 300000
MaxWaitTime == 300000

\* setTimeout(resolve, 2000)
PollInterval == 2000

\* if (data.length >= 5)
ExpectedColumns == 5

\* result pages followed
MaxPages == 2

\* an Error: its message, and for a failed query the state and reason in it
QueryError(message, state, reason) ==
    [message |-> message, state |-> state, reason |-> reason]

NoError == QueryError("", "", "")

\* response.QueryExecution.Status
Status(state, reason) == [State |-> state, StateChangeReason |-> reason]

NoStatus == Status(Absent, Absent)

\* new Error("Failed to start Athena query execution")
StartFailed == QueryError("Failed to start Athena query execution", "", "")

\* new Error("Query execution timeout")
WaitTimedOut == QueryError("Query execution timeout", "", "")

\* what athenaClient.send rejects with
ClientError == QueryError("AthenaClientError", "", "")

\* what JSON.parse throws
ParseError == QueryError("SyntaxError", "", "")

\* variant: the reason of the backend is left out of the error
QueryFailed_NoReason(state, reason) ==
    QueryError("Query execution STATE: REASON", state, "Unknown error")

\* new Error(`Query execution ${state}: ${reason}`)
QueryFailed(state, reason) ==
    QueryError("Query execution STATE: REASON", state,
               IF reason = Absent THEN "Unknown error" ELSE reason)

\* a row of a result page: how many columns it has, and its first and sixth
Row(id, cols, metadata) == [articleId |-> id, cols |-> cols, metadata |-> metadata]

\* the row of column names that opens the first page of a result
HeaderRow == Row("articleId", 6, "metadata")

\* pages the backend may hold: a full page, a page that opens with a short
\* row, a page of one row, an empty page, a page with an attributes column
\* that is no JSON
PagePool ==
    {<<Row("r1", 6, "{}"), Row("r2", 5, "")>>,
     <<Row("r3", 4, ""), Row("r4", 6, "")>>,
     <<Row("r5", 6, "{}")>>,
     <<>>,
     <<Row("r6", 6, "{bad"), Row("r7", 7, "{}")>>}

\* response.ResultSet.Rows of page k: the query service puts the header row
\* on the first page only
ResponseRows(k) == IF k = 1 THEN <<HeaderRow>> \o pages[k] ELSE pages[k]

\* for (let i = 1; i < rows.length; i++): every row but the first
RowsRead(rows) == SubSeq(rows, 2, Len(rows))

\* data.length >= 5
HasColumns(r) == r.cols >= ExpectedColumns

\* JSON.parse(this.extractValue(data[5]) || "{}") throws
ParseFails(r) == r.cols > ExpectedColumns /\ r.metadata \notin {"", "{}"}

\* the TrainingExample built from a row
DecodeRow(r) ==
    TrainingExample(r.articleId, Text("title of " \o r.articleId, 30, 0, TRUE, 2, 0),
                    Text("content of " \o r.articleId, 120, 0, TRUE, 3, 0),
                    "pub1", "2024-03-01", NoMetadata)

DecodeRows(rows) == [i \in 1..Len(rows) |-> DecodeRow(rows[i])]

\* queryTrainingData fails: the error leaves the function, results are lost
FetchFails(error) ==
    /\ qpc' = "failed"
    /\ qError' = error

\* athenaClient.send(startCommand), then the check of QueryExecutionId
StartQuery ==
    /\ qpc = "start"
    /\ nStart' = nStart + 1
    /\ \/ /\ qpc' = "wait"
          /\ UNCHANGED qError
       \/ FetchFails(ClientError)
       \/ FetchFails(StartFailed)
    /\ UNCHANGED <<qState, qElapsed, pages, nextPage, fetched>>
    /\ UNCHANGED <<coreVars, jobVars, submissions>>

\* variant: the loop never gives up
WaitExpired_Never(t) == FALSE

\* the negation of the loop condition Date.now() - startTime < maxWaitTime
WaitExpired(t) == ~(t < MaxWaitTime)

\* one turn of the loop of waitForQueryCompletion: GetQueryExecution, then
\* return, throw, or sleep for the poll interval
PollQuery ==
    /\ qpc = "wait"
    /\ ~WaitExpired(qElapsed)
    /\ \/ /\ FetchFails(ClientError)
          /\ UNCHANGED <<qState, qElapsed, pages, nextPage>>
       \/ /\ qState' = Status("SUCCEEDED", Absent)
          /\ qpc' = "page"
          /\ nextPage' = 1
          /\ \E ps \in BoundedSeq(PagePool, MaxPages) :
                ps # <<>> /\ pages' = ps
          /\ UNCHANGED <<qElapsed, qError>>
       \/ /\ \E st \in {"FAILED", "CANCELLED"} : \E reason \in Reasons \cup {Absent} :
                /\ qState' = Status(st, reason)
                /\ FetchFails(QueryFailed(st, reason))
          /\ UNCHANGED <<qElapsed, pages, nextPage>>
       \/ /\ \E st \in {"QUEUED", "RUNNING", Absent} : qState' = Status(st, Absent)
          /\ qElapsed' = Min(qElapsed + PollInterval, MaxWaitTime)
          /\ UNCHANGED <<qpc, qError, pages, nextPage>>
    /\ UNCHANGED <<nStart, fetched>>
    /\ UNCHANGED <<coreVars, jobVars, submissions>>

\* the loop condition fails: throw new Error("Query execution timeout")
WaitTimeout ==
    /\ qpc = "wait"
    /\ WaitExpired(qElapsed)
    /\ FetchFails(WaitTimedOut)
    /\ UNCHANGED <<qState, qElapsed, nStart, pages, nextPage, fetched>>
    /\ UNCHANGED <<coreVars, jobVars, submissions>>

\* one turn of the do loop of getQueryResults: GetQueryResults with the
\* token, the rows of the page, then the next token
FetchPage ==
    /\ qpc = "page"
    /\ \/ /\ FetchFails(ClientError)
          /\ UNCHANGED <<nextPage, fetched>>
       \/ LET kept == SelectSeq(RowsRead(ResponseRows(nextPage)), HasColumns)
          IN  IF \E i \in 1..Len(kept) : ParseFails(kept[i])
                 THEN /\ FetchFails(ParseError)
                      /\ UNCHANGED <<nextPage, fetched>>
                 ELSE /\ fetched' = fetched \o DecodeRows(kept)
                      /\ nextPage' = nextPage + 1
                      /\ qpc' = IF nextPage < Len(pages) THEN "page" ELSE "done"
                      /\ UNCHANGED qError
    /\ UNCHANGED <<qState, qElapsed, nStart, pages>>
    /\ UNCHANGED <<coreVars, jobVars, submissions>>

----------------------------------------------------------------------------
(* BedrockService: the submission *)

\* runs of the data job followed together
MaxRuns == 2

\* distinct values of Date.now() at the submission
NumTimes == 2

\* distinct values of TRAINING_RUN_ID
NumRunIds == 2

RunIds == {"run" \o ToString(i) : i \in 1..NumRunIds}

Times == 1..NumTimes

\* PUBLICATION_ID, which may be unset
Publications == {"pub1", Absent}

\* process.env.STAGE || "dev"
Stages == {"dev", "prod"}

\* process.env.TRAINING_RUN_ID of the run followed record by record
JobRunId == "run1"

\* process.env.TRAINING_DATA_BUCKET
TrainingDataBucket == "bucket"

\* the TrainingConfig fields used to save and to submit
TrainingConfig(runId, publicationId) ==
    [trainingRunId |-> runId, publicationId |-> publicationId,
     trainingDataBucket |-> TrainingDataBucket]

NoConfig == [trainingRunId |-> Absent, publicationId |-> Absent,
             trainingDataBucket |-> Absent]

\* `${Date.now()}-${config.trainingRunId}`
DatasetVersion(cfg, now) == [now |-> now, trainingRunId |-> cfg.trainingRunId]

\* `datasets/${config.publicationId || "all"}/${datasetVersion}/training-data.jsonl`
DatasetKey(cfg, now) ==
    [prefix |-> "datasets",
     publicationId |-> IF cfg.publicationId = Absent THEN "all"
                                                     ELSE cfg.publicationId,
     datasetVersion |-> DatasetVersion(cfg, now),
     file |-> "training-data.jsonl"]

\* `s3://${bucket}/${key}`
S3Uri(bucket, key) == [scheme |-> "s3", bucket |-> bucket, key |-> key]

\* Bucket and Key of a PutObjectCommand
ObjectAt(bucket, key) == [Bucket |-> bucket, Key |-> key]

NoObject == [Bucket |-> Absent, Key |-> Absent]

\* the ProcessingResult of a save started at now and returned at done
ProcessingResult(q, cfg, now, done) ==
    [promptCount |-> Len(q),
     s3Location |-> S3Uri(cfg.trainingDataBucket, DatasetKey(cfg, now)),
     datasetVersion |-> DatasetVersion(cfg, now),
     processingTime |-> done]

NoResult == [promptCount |-> 0, s3Location |-> Absent,
             datasetVersion |-> Absent, processingTime |-> 0]

\* await storageService.saveTrainingDataset(prompts, config): one PutObject
\* of the whole body under the key, then the result naming that key; or a
\* failure that writes nothing. The publication, read from the environment
\* at the start of main, is drawn here, where it is first used.
JobSave ==
    /\ rpc = "save"
    /\ \/ /\ \E pub \in Publications :
             \E now \in Times : \E done \in now..NumTimes :
                LET cfg == TrainingConfig(JobRunId, pub)
                IN  /\ config' = cfg
                    /\ objectKey' = ObjectAt(cfg.trainingDataBucket,
                                             DatasetKey(cfg, now))
                    /\ result' = ProcessingResult(prompts, cfg, now, done)
          /\ dataset' = JsonLines(prompts)
          /\ rpc' = "submit"
       \/ /\ rpc' = "exit1"
          /\ UNCHANGED storeVars
    /\ UNCHANGED <<minPromptCount, rawExamples, cleanVars, distillVars>>
    /\ UNCHANGED runVars

\* `training-${config.trainingRunId}-${stage}`
JobName(runId, stage) ==
    [prefix |-> "training", trainingRunId |-> runId, stage |-> stage]

\* `custom-model-${config.publicationId || "all"}-${stage}-${Date.now()}`
CustomModelName(publicationId, stage, now) ==
    [prefix |-> "custom-model",
     publicationId |-> IF publicationId = Absent THEN "all" ELSE publicationId,
     stage |-> stage, now |-> now]

\* the names in the CreateModelCustomizationJobCommand of a run
CustomizationRequest(runId, publicationId, stage, now) ==
    [jobName |-> JobName(runId, stage),
     customModelName |-> CustomModelName(publicationId, stage, now)]

\* the CreateModelCustomizationJobCommand of the data job: the names and the
\* training data location taken from the result of the save
CustomizationCommand(cfg, res, stage, now) ==
    Spread(CustomizationRequest(cfg.trainingRunId, cfg.publicationId, stage,
                                now),
           [trainingDataConfig |-> [s3Uri |-> res.s3Location]])

\* variant: a rejected submission removes the stored dataset
JobSubmit_RollsBack ==
    /\ rpc = "submit"
    /\ \/ /\ \E st \in Stages : \E now \in result.processingTime..NumTimes :
                submissions' =
                    Append(submissions,
                           CustomizationCommand(config, result, st, now))
          /\ rpc' = "exit0"
          /\ UNCHANGED storeVars
       \/ /\ rpc' = "exit1"
          /\ dataset' = <<>>
          /\ objectKey' = NoObject
          /\ UNCHANGED <<submissions, config, result>>
    /\ UNCHANGED <<minPromptCount, rawExamples, cleanVars, distillVars>>
    /\ UNCHANGED <<coreVars, fetchVars>>

\* await bedrockService.createModelCustomizationJob(config, result, ...):
\* accepted, or rejected and rethrown to main's catch, which exits 1
JobSubmit ==
    /\ rpc = "submit"
    /\ \/ /\ \E st \in Stages : \E now \in result.processingTime..NumTimes :
                submissions' =
                    Append(submissions,
                           CustomizationCommand(config, result, st, now))
          /\ rpc' = "exit0"
       \/ /\ rpc' = "exit1"
          /\ UNCHANGED submissions
    /\ UNCHANGED <<minPromptCount, rawExamples, cleanVars, distillVars, storeVars>>
    /\ UNCHANGED <<coreVars, fetchVars>>

\* one more run of the data job reaches its submission and is accepted
SubmitRun ==
    /\ Len(submissions) < MaxRuns
    /\ \E id \in RunIds : \E pub \in Publications : \E st \in Stages :
       \E now \in Times :
          submissions' =
              Append(submissions, CustomizationRequest(id, pub, st, now))
    /\ UNCHANGED <<coreVars, jobVars, fetchVars>>

----------------------------------------------------------------------------
(* Specification *)

RunInit ==
    /\ pc = "RunTrainingTask"
    /\ execStatus = "RUNNING"
    /\ execError = Absent
    /\ data = InitialData
    /\ elapsed = 0
    /\ notifications = <<>>
    /\ nRuns = 0
    /\ nWaits = 0
    /\ nPolls = 0
    /\ nNonTerminal = 0
    /\ polledArn = Absent
    /\ mpc = "idle"
    /\ exitCode = -1
    /\ rawCount = 0
    /\ cleanedCount = 0
    /\ promptCount = 0
    /\ nQuery = 0
    /\ nWrite = 0
    /\ nSubmit = 0
    /\ s3Object = -1
    /\ jobArn = Absent
    /\ jobStatus = "NONE"
    /\ jobReason = Absent
    /\ nClean = 0
    /\ nDistill = 0
    /\ stdout = <<>>

\* the orchestration is followed with the data job's records left out
RecIdle ==
    /\ rpc = "idle"
    /\ minPromptCount = MinPromptCount
    /\ rawExamples = <<>>
    /\ noNulls = <<>>
    /\ stripped = <<>>
    /\ unique = <<>>
    /\ cleanedExamples = <<>>
    /\ seenArticleIds = {}
    /\ examples = <<>>
    /\ loopI = 0
    /\ inFlight = {}
    /\ results = <<>>
    /\ outOfOrder = FALSE
    /\ prompts = <<>>
    /\ dataset = <<>>
    /\ config = NoConfig
    /\ objectKey = NoObject
    /\ result = NoResult

FetchIdle ==
    /\ qpc = "idle"
    /\ qState = NoStatus
    /\ qElapsed = 0
    /\ nStart = 0
    /\ pages = <<>>
    /\ nextPage = 0
    /\ fetched = <<>>
    /\ qError = NoError
    /\ submissions = <<>>

Init == RunInit /\ RecIdle /\ FetchIdle

Next ==
    \/ RunTrainingTaskStart
    \/ MainQuery
    \/ MainCheckRaw
    \/ MainClean
    \/ MainCheckCleaned
    \/ MainDistill
    \/ MainCheckPrompts
    \/ MainSave
    \/ MainSubmit
    \/ MainExit
    \/ TaskTimePasses
    \/ RunTrainingTaskEnd
    \/ CheckTaskSuccess
    \/ TaskSucceeded
    \/ WaitForTraining
    \/ CheckTrainingStatus
    \/ HandleTrainingCompletion
    \/ TrainingSucceeded
    \/ NotifyFailure
    \/ TrainingFailed
    \/ NotifyEcsFailure
    \/ TaskFailed
    \/ WorkflowTimeout
    \/ JobProgress

Spec == Init /\ [][Next]_vars

\* the host runs every enabled state of the execution and the ECS task's
\* process, and enforces the timeout; the training service owes no progress
FairSpec ==
    /\ Spec
    /\ WF_vars(RunTrainingTaskStart)
    /\ WF_vars(MainQuery \/ MainCheckRaw \/ MainClean \/ MainCheckCleaned
               \/ MainDistill \/ MainCheckPrompts \/ MainSave \/ MainSubmit
               \/ MainExit)
    /\ WF_vars(RunTrainingTaskEnd)
    /\ WF_vars(CheckTaskSuccess \/ TaskSucceeded \/ WaitForTraining
               \/ CheckTrainingStatus \/ HandleTrainingCompletion
               \/ TrainingSucceeded \/ NotifyFailure \/ TrainingFailed
               \/ NotifyEcsFailure \/ TaskFailed)
    /\ WF_vars(WorkflowTimeout)

\* distillExamples on its own, for every input up to MaxExamples records
DistillInit ==
    /\ RunInit
    /\ FetchIdle
    /\ rpc = "loop"
    /\ minPromptCount = MinPromptCount
    /\ examples \in BoundedSeq(DistillPool, MaxExamples)
    /\ rawExamples = <<>>
    /\ noNulls = <<>>
    /\ stripped = <<>>
    /\ unique = <<>>
    /\ cleanedExamples = <<>>
    /\ seenArticleIds = {}
    /\ loopI = 0
    /\ inFlight = {}
    /\ results = <<>>
    /\ outOfOrder = FALSE
    /\ prompts = <<>>
    /\ dataset = <<>>
    /\ config = NoConfig
    /\ objectKey = NoObject
    /\ result = NoResult

DistillNext == DistillLoop \/ TeacherResolves \/ DistillBatchDone

DistillSpec == DistillInit /\ [][DistillNext]_vars

\* main() from the query to the stored dataset, record by record, for every
\* configured minimum up to MaxRaw
DataJobInit ==
    /\ RunInit
    /\ FetchIdle
    /\ rpc = "query"
    /\ minPromptCount \in 1..MaxRaw
    /\ rawExamples = <<>>
    /\ noNulls = <<>>
    /\ stripped = <<>>
    /\ unique = <<>>
    /\ cleanedExamples = <<>>
    /\ seenArticleIds = {}
    /\ examples = <<>>
    /\ loopI = 0
    /\ inFlight = {}
    /\ results = <<>>
    /\ outOfOrder = FALSE
    /\ prompts = <<>>
    /\ dataset = <<>>
    /\ config = NoConfig
    /\ objectKey = NoObject
    /\ result = NoResult

DataJobNext ==
    \/ JobQuery
    \/ JobCheckRaw
    \/ JobClean
    \/ JobCheckCleaned
    \/ JobDistill
    \/ DistillLoop
    \/ TeacherResolves
    \/ DistillBatchDone
    \/ JobCheckPrompts
    \/ JobSave
    \/ JobSubmit

DataJobSpec == DataJobInit /\ [][DataJobNext]_vars

\* queryTrainingData on its own, from the start of the query
FetchInit ==
    /\ RunInit
    /\ RecIdle
    /\ qpc = "start"
    /\ qState = NoStatus
    /\ qElapsed = 0
    /\ nStart = 0
    /\ pages = <<>>
    /\ nextPage = 0
    /\ fetched = <<>>
    /\ qError = NoError
    /\ submissions = <<>>

FetchNext == StartQuery \/ PollQuery \/ WaitTimeout \/ FetchPage

FetchSpec == FetchInit /\ [][FetchNext]_vars

\* every call and every sleep of the retriever returns
FetchFairSpec ==
    /\ FetchSpec
    /\ WF_vars(StartQuery)
    /\ WF_vars(PollQuery)
    /\ WF_vars(WaitTimeout)
    /\ WF_vars(FetchPage)

\* the submissions of up to MaxRuns runs of the data job
SubmitSpec == Init /\ [][SubmitRun]_vars

\* cleanExamples on its own, called up to MaxCleanCalls times on one cleaner
CleanSpec == Init /\ [][CleanerCall]_vars


----------------------------------------------------------------------------
(* Properties *)

LoopStates == {"WaitForTraining", "CheckTrainingStatus", "HandleTrainingCompletion"}

PolledStatus == data.trainingStatus.status

\* C1: whenever a status poll returned FAILED or STOPPED, the next state is
\* the training-failure notification, never WaitForTraining.
C1_FailedOrStoppedNotifies ==
    [][(pc = "HandleTrainingCompletion" /\ PolledStatus \in {"FAILED", "STOPPED"}
        /\ pc' # pc) => pc' = "NotifyFailure"]_vars

\* C2: the execution is SUCCEEDED only if the last poll returned COMPLETED,
\* a poll result of COMPLETED leads to TrainingSucceeded and nothing else
\* does, and TrainingSucceeded ends the execution as SUCCEEDED.
C2_SucceededIffCompleted ==
    /\ [](execStatus = "SUCCEEDED" => (nPolls >= 1 /\ PolledStatus = "COMPLETED"))
    /\ [][/\ (pc = "HandleTrainingCompletion" /\ PolledStatus = "COMPLETED"
              /\ pc' # pc) => pc' = "TrainingSucceeded"
          /\ (pc' = "TrainingSucceeded" /\ pc # pc')
                => (pc = "HandleTrainingCompletion" /\ PolledStatus = "COMPLETED")
          /\ (pc = "TrainingSucceeded" /\ execStatus' # execStatus)
                => execStatus' = "SUCCEEDED"]_vars

C2_Witness == execStatus = "SUCCEEDED" /\ PolledStatus = "COMPLETED"

\* C3: no execution ends FAILED because the data job failed (non-zero exit)
\* without a data-failure notification having been published.
C3_DataFailureNotified ==
    (execStatus = "FAILED" /\ pc = "RunTrainingTask.sync" /\ exitCode = 1)
        => \E i \in 1..Len(notifications) :
              notifications[i].subject = "ECS Task Failure"

\* C4: an execution aborted by the workflow timeout has published a failure
\* notification.
C4_TimeoutNotified ==
    (execStatus = "FAILED" /\ execError = "States.Timeout")
        => Len(notifications) >= 1

\* C5: a failed status-check call for the run's own job does not end the
\* execution; the orchestrator goes back to WaitForTraining.
C5_PollingFailureIsTransient ==
    [][(pc = "CheckTrainingStatus" /\ data.taskExecution.BedrockJobArn = jobArn
        /\ nPolls' = nPolls + 1)
           => (execStatus' = "RUNNING"
               /\ pc' \in {"WaitForTraining", "HandleTrainingCompletion"})]_vars

\* C6: every poll is preceded by exactly one completed wait, a non-terminal
\* poll result leads back to WaitForTraining, and an execution that SUCCEEDED
\* after k-1 non-terminal polls went through exactly k waits and k polls.
C6_ExactlyKCycles ==
    /\ [](/\ nPolls <= nWaits /\ nWaits <= nPolls + 1
          /\ (pc = "CheckTrainingStatus" /\ execStatus = "RUNNING")
                => nWaits = nPolls + 1
          /\ pc \in {"HandleTrainingCompletion", "TrainingSucceeded"}
                => nWaits = nPolls
          /\ execStatus = "SUCCEEDED"
                => (nWaits = nPolls /\ nPolls = nNonTerminal + 1))
    /\ [][/\ nPolls' # nPolls
                => (pc = "CheckTrainingStatus" /\ nWaits = nPolls + 1
                    /\ nPolls' = nPolls + 1)
          /\ (pc = "HandleTrainingCompletion"
              /\ PolledStatus \in NonTerminalStatuses /\ pc' # pc)
                => pc' = "WaitForTraining"]_vars

\* scenario D: SUBMITTED, IN_PROGRESS, then COMPLETED on the third poll
C6_Witness ==
    execStatus = "SUCCEEDED" /\ nNonTerminal = 2 /\ nPolls = 3 /\ nWaits = 3

\* C7: the wait/poll loop is entered only after the data job exited 0 with
\* enough examples and a submitted job, and the handle the polls use is the
\* one that submission returned.
C7_PollsRunsOwnHandle ==
    pc \in LoopStates
        => /\ exitCode = 0 /\ ~BelowMinimum(promptCount) /\ nSubmit = 1
           /\ data.taskExecution.BedrockJobArn = jobArn

\* C8: when the training job FAILED with reason r, the notification carries r
\* and the failed execution has r attached as its error.
C8_ReasonAttached ==
    (execStatus = "FAILED" /\ pc = "TrainingFailed")
        => /\ Len(notifications) = 1
           /\ notifications[1].field = "reason"
           /\ notifications[1].value = jobReason
           /\ execError = jobReason

\* C9: every execution eventually ends, SUCCEEDED or FAILED.
C9_EventuallyTerminal == <>(execStatus \in {"SUCCEEDED", "FAILED"})

C9_Witness ==
    execStatus = "FAILED" /\ execError = "States.Timeout"
        /\ pc \in LoopStates /\ jobStatus \in NonTerminalStatuses

\* C10: the data job is started once per execution and never again after it
\* failed; the query, the dataset write and the submission are each
\* attempted at most once.
C10_DataJobOnce ==
    /\ [](/\ nRuns <= 1 /\ nQuery <= 1 /\ nWrite <= 1 /\ nSubmit <= 1
          /\ pc # "RunTrainingTask" => nRuns = 1)
    /\ [][exitCode = 1 => (nRuns' = nRuns /\ pc' # "RunTrainingTask")]_vars

C10_Witness ==
    execStatus = "FAILED" /\ exitCode = 1 /\ nRuns = 1 /\ nQuery = 1 /\ nWrite = 1
        /\ nSubmit = 1

NoWriteNoSubmit == nWrite = 0 /\ nSubmit = 0 /\ s3Object = -1 /\ jobArn = Absent

\* C11: a retrieved count below the minimum fails the data job before
\* cleanExamples is called, a cleaned count below the minimum before
\* distillExamples is called, a prompt count below the minimum before the
\* dataset is written; in each case nothing is written and nothing submitted.
C11_MinimumCountGates ==
    /\ [](/\ (nQuery = 1 /\ mpc # "query" /\ rawCount < MinPromptCount)
                => (nClean = 0 /\ nDistill = 0 /\ NoWriteNoSubmit
                    /\ mpc \in {"checkRaw", "exited"})
          /\ (nClean = 1 /\ cleanedCount < MinPromptCount)
                => (nDistill = 0 /\ NoWriteNoSubmit
                    /\ mpc \in {"checkCleaned", "exited"})
          /\ (nDistill = 1 /\ promptCount < MinPromptCount)
                => (NoWriteNoSubmit /\ mpc \in {"checkPrompts", "exited"})
          /\ (mpc = "exited" /\ (rawCount < MinPromptCount
                                 \/ (nClean = 1 /\ cleanedCount < MinPromptCount)
                                 \/ (nDistill = 1 /\ promptCount < MinPromptCount)))
                => exitCode = 1)
    /\ [][/\ nClean' # nClean => rawCount >= MinPromptCount
          /\ nDistill' # nDistill => cleanedCount >= MinPromptCount
          /\ nWrite' # nWrite => promptCount >= MinPromptCount]_vars

C11_Witness ==
    /\ mpc = "exited" /\ exitCode = 1
    /\ rawCount >= MinPromptCount /\ nClean = 1
    /\ cleanedCount < MinPromptCount /\ nDistill = 0 /\ NoWriteNoSubmit

AllStepsSucceeded ==
    /\ nQuery = 1 /\ rawCount >= MinPromptCount
    /\ nClean = 1 /\ cleanedCount >= MinPromptCount
    /\ nDistill = 1 /\ promptCount >= MinPromptCount
    /\ nWrite = 1 /\ s3Object = promptCount
    /\ nSubmit = 1 /\ jobArn # Absent

\* C12: the data job exits 0 exactly when the query, the three minimum-count
\* checks, the dataset write and the submission all succeeded, and exits 1
\* otherwise.
C12_ExitZeroIffAllSucceeded ==
    mpc = "exited"
        => /\ exitCode \in {0, 1}
           /\ exitCode = 0 <=> AllStepsSucceeded

C12_Witness == mpc = "exited" /\ exitCode = 0 /\ AllStepsSucceeded

ResultFields == {"promptCount", "s3Location", "datasetVersion", "processingTime"}

\* C13: a data job that exited 0 has printed one result object carrying the
\* prompt count, the dataset location, the dataset version and the processing
\* timestamp.
C13_ResultObjectEmitted ==
    (mpc = "exited" /\ exitCode = 0)
        => \E i \in 1..Len(stdout) : ResultFields \subseteq stdout[i].fields

\* distillExamples has returned its prompts
Returned == rpc = "checkPrompts"

\* positions whose teacher call failed, answered with blank text, or answered
\* with a usable text
Failed == {i \in DOMAIN results : ~results[i].outcome.ok}
Blank == {i \in DOMAIN results :
             results[i].outcome.ok /\ Falsy(Trim(results[i].outcome.text))}
Answered == {i \in DOMAIN results :
                results[i].outcome.ok /\ ~Falsy(Trim(results[i].outcome.text))}

\* C14: whatever subset of the teacher calls fails, distillExamples returns,
\* and it returns exactly one example per input record: as many examples as
\* records, the i-th carrying the student prompt of the i-th record. No call
\* is left without a value, so nothing rejects Promise.all.
C14_OneExamplePerRecord ==
    /\ rpc \in {"loop", "await", "checkPrompts"}
    /\ DOMAIN results \cup inFlight = 1..Min(Len(examples), IF rpc = "await" THEN loopI + MaxConcurrentRequests ELSE loopI)
    /\ Returned =>
          /\ Len(prompts) = Len(examples)
          /\ \A i \in 1..Len(examples) :
                prompts[i].prompt = CreateStudentPrompt(examples[i])

\* two batches were distilled and returned; some calls failed, some did not
C14_Witness ==
    /\ Returned
    /\ Len(examples) > MaxConcurrentRequests
    /\ Failed # {}
    /\ Failed # DOMAIN results

\* the note an example carries under teacherModelError, Absent if none
ErrorNote(p) ==
    IF "teacherModelError" \in DOMAIN p.metadata
       THEN p.metadata.teacherModelError
       ELSE Absent

C16_PromptIndependentOfOutcome ==
    \A i \in DOMAIN results :
        /\ results[i].value.prompt = CreateStudentPrompt(examples[i])
        /\ \A o \in TeacherOutcomes :
              GenerateTeacherOutput(examples[i], o).prompt
                 = results[i].value.prompt
        /\ \A j \in DOMAIN results :
              examples[j] = examples[i] =>
                 results[j].value.prompt = results[i].value.prompt

\* the same record was distilled twice, once with a failed call and once with
\* a succeeded one
C16_Witness ==
    /\ Returned
    /\ \E i \in Failed : \E j \in Answered : examples[i] = examples[j]

\* window of position k: 0 for the first maxConcurrentRequests records, ...
Window(k) == (k - 1) \div MaxConcurrentRequests

\* C17: never more than maxConcurrentRequests teacher calls are in flight, the
\* calls in flight belong to one window, and every call of an earlier window
\* has resolved.
C17_WindowedConcurrency ==
    /\ Cardinality(inFlight) <= MaxConcurrentRequests
    /\ \A k \in inFlight : \A j \in 1..Len(examples) :
          /\ j \in inFlight => Window(j) = Window(k)
          /\ Window(j) < Window(k) => j \in DOMAIN results

\* the second window is in flight after a full first window resolved
C17_Witness ==
    /\ inFlight # {}
    /\ \A k \in inFlight : Window(k) = 1
    /\ Cardinality(DOMAIN results) = MaxConcurrentRequests

\* C18: the examples returned are in input-record order: the i-th example is
\* the value of the i-th record's call, whatever the order of completion.
C18_InputOrder ==
    /\ Len(prompts) <= Len(examples)
    /\ \A i \in 1..Len(prompts) :
          /\ i \in DOMAIN results
          /\ prompts[i] = results[i].value
          /\ prompts[i].metadata
                = GenerateTeacherOutput(examples[i], results[i].outcome).metadata

\* returned two batches after a call completed before an earlier call of its
\* batch, with different records and outcomes in the first batch
C18_Witness ==
    /\ Returned
    /\ outOfOrder
    /\ Len(examples) > MaxConcurrentRequests
    /\ \E i, j \in 1..MaxConcurrentRequests : prompts[i] # prompts[j]

\* position of the first record of article id in q
FirstIndex(q, id) ==
    CHOOSE i \in 1..Len(q) :
        /\ q[i].articleId = id
        /\ \A j \in 1..(i - 1) : q[j].articleId # id

\* C19: the output of filterDuplicates holds every article id of its input
\* exactly once, the record kept for an id is the first of that id in the
\* input, and the kept records are in the order of the input.
C19_FirstOccurrenceKept ==
    /\ \A i \in 1..Len(stripped) :
          Cardinality({j \in 1..Len(unique) :
                          unique[j].articleId = stripped[i].articleId}) = 1
    /\ \A j \in 1..Len(unique) :
          /\ \E i \in 1..Len(stripped) : stripped[i].articleId = unique[j].articleId
          /\ unique[j] = stripped[FirstIndex(stripped, unique[j].articleId)]
    /\ \A j, k \in 1..Len(unique) :
          j < k => FirstIndex(stripped, unique[j].articleId)
                      < FirstIndex(stripped, unique[k].articleId)
    /\ seenArticleIds = {unique[j].articleId : j \in 1..Len(unique)}

\* a later, different record of an article already seen was dropped from
\* between two kept records
C19_Witness ==
    /\ Len(unique) >= 2
    /\ \E i \in 2..(Len(stripped) - 1) :
          /\ stripped[i] \notin SeqToSet(unique)
          /\ stripped[i - 1] \in SeqToSet(unique)
          /\ stripped[i + 1] \in SeqToSet(unique)

\* C20: every line of a dataset written is the example of one cleaned
\* record, the i-th line that of the i-th cleaned record; the cleaned records
\* have pairwise different article ids, so no two examples come from the same
\* source record id, and the dataset has no more examples than there are
\* cleaned records. (The source is the record the example was built from; the
\* articleId an example shows in its metadata is a separate matter.)
C20_AtMostOneExamplePerRecord ==
    dataset # <<>> =>
       /\ Len(dataset) <= Len(cleanedExamples)
       /\ \A i \in 1..Len(dataset) :
             dataset[i] = JsonLine(GenerateTeacherOutput(cleanedExamples[i],
                                                         results[i].outcome))
       /\ \A i, j \in 1..Len(cleanedExamples) :
             i # j => cleanedExamples[i].articleId # cleanedExamples[j].articleId

\* a dataset of two examples was written after a duplicate was dropped, the
\* two examples showing the same articleId in their metadata
C20_Witness ==
    /\ rpc = "submit"
    /\ Len(dataset) = 2
    /\ Len(stripped) > Len(unique)
    /\ dataset[1].json.metadata.articleId = dataset[2].json.metadata.articleId

\* the four stages applied in their fixed order to the records retrieved
CleanedInOrder(q) ==
    ValidateEntitiesAndQuotes(
        UniqueFrom(StripHtml(RemoveNulls(q)), 1, {}))

\* cleanExamples has run on rawExamples
CleaningDone ==
    rpc \in {"checkCleaned", "distill", "loop", "await", "checkPrompts",
             "save", "submit", "exit0"}
       \/ (rpc = "exit1" /\ cleanedExamples # <<>>)

\* C21: the counts along cleanExamples never grow, and stripping keeps the
\* count: input >= after removeNulls = after stripHtml >= after
\* filterDuplicates >= after validation; the result is that of the stages in
\* the order completeness, stripping, deduplication, validation.
C21_StageCounts ==
    /\ Len(rawExamples) >= Len(noNulls)
    /\ Len(noNulls) = Len(stripped)
    /\ Len(stripped) >= Len(unique)
    /\ Len(unique) >= Len(cleanedExamples)
    /\ CleaningDone =>
          /\ noNulls = RemoveNulls(rawExamples)
          /\ stripped = StripHtml(noNulls)
          /\ cleanedExamples = CleanedInOrder(rawExamples)

\* every stage but stripping dropped a record, one of them only because its
\* markup was stripped before validation
C21_Witness ==
    /\ CleaningDone
    /\ Len(rawExamples) > Len(noNulls)
    /\ Len(stripped) > Len(unique)
    /\ Len(unique) > Len(cleanedExamples)
    /\ \E i \in 1..Len(noNulls) :
          IsValid(noNulls[i]) /\ ~IsValid(stripped[i])

\* C22: validation rejects a record exactly when its content is shorter than
\* 50, or its title is shorter than 5, or its title is longer than 20 with
\* more than 0.8 of its length in upper case; the limits themselves pass and
\* the number of quotation marks plays no part.
C22_ValidationLimits ==
    /\ \A i \in 1..Len(unique) :
          (\E j \in 1..Len(cleanedExamples) : cleanedExamples[j] = unique[i])
             <=> ~ \/ Length(unique[i].content) <= 49
                   \/ Length(unique[i].title) <= 4
                   \/ /\ Length(unique[i].title) >= 21
                      /\ 5 * unique[i].title.upper > 4 * Length(unique[i].title)
    /\ \A e \in LimitPool :
          IsValid(e) <=> IsValid([e EXCEPT !.title.quotes = @ + 1])

\* accepted in one call: a content of 50 with a title of 20 upper case
\* letters, and a title of 25 at ratio 0.8 with an odd number of quotes
C22_Witness ==
    /\ Len(cleanedExamples) = 2
    /\ \E j \in 1..2 :
          /\ Length(cleanedExamples[j].content) = 50
          /\ Length(cleanedExamples[j].title) = 20
          /\ cleanedExamples[j].title.upper = 20
    /\ \E j \in 1..2 :
          /\ Length(cleanedExamples[j].title) = 25
          /\ cleanedExamples[j].title.upper = 20
          /\ (cleanedExamples[j].title.quotes
                + cleanedExamples[j].content.quotes) % 2 = 1

\* C23: whatever a cleaner was called with before, cleanExamples gives what a
\* new cleaner gives for the same input: no record is dropped for an id seen
\* in an earlier call, and the set holds the ids of the last call only.
C23_NoStateAcrossCalls ==
    /\ cleanedExamples = CleanedInOrder(rawExamples)
    /\ unique = UniqueFrom(stripped, 1, {})
    /\ seenArticleIds = {stripped[i].articleId : i \in 1..Len(stripped)}

\* the first call dropped a duplicate of article a1, the only id the pool
\* has twice, and the second call on the same cleaner kept a record of a1
C23_Witness ==
    /\ nClean = 2
    /\ stdout[2].text = "After null removal: 2 examples"
    /\ stdout[4].text = "After duplicate filtering: 1 examples"
    /\ seenArticleIds = {"a1"}
    /\ cleanedExamples # <<>>

\* the data rows of the first k pages, in backend order
RECURSIVE RowsUpTo(_)
RowsUpTo(k) == IF k = 0 THEN <<>> ELSE RowsUpTo(k - 1) \o pages[k]

\* C24: getQueryResults asks for pages until a response has no NextToken, and
\* what it returns is, in backend order and once each, the record of every
\* data row of every page that has at least ExpectedColumns columns.
C24_EveryRowOfEveryPage ==
    qpc = "done" =>
       /\ nextPage = Len(pages) + 1
       /\ fetched = DecodeRows(SelectSeq(RowsUpTo(Len(pages)), HasColumns))

\* C25: a row with fewer columns than expected does not fail the fetch, and
\* every row with enough columns that comes after it, on its page or on a
\* later page, is returned.
C25_ShortRowsSkipped ==
    qpc = "done" =>
          \A k \in 1..Len(pages) : \A i \in 1..Len(pages[k]) :
             ~HasColumns(pages[k][i]) =>
                /\ DecodeRow(pages[k][i]) \notin SeqToSet(fetched)
                /\ \A j \in (i + 1)..Len(pages[k]) :
                      HasColumns(pages[k][j])
                         => DecodeRow(pages[k][j]) \in SeqToSet(fetched)
                /\ \A m \in (k + 1)..Len(pages) : \A j \in 1..Len(pages[m]) :
                      HasColumns(pages[m][j])
                         => DecodeRow(pages[m][j]) \in SeqToSet(fetched)

\* the retriever failed before it asked for a page
FailedBeforePages == qpc = "failed" /\ nextPage = 0

\* C26: a page is asked for only after the backend reported SUCCEEDED. A
\* fetch that fails before that fails in one of three ways, none returning a
\* record: the query could not be started; the backend reported FAILED or
\* CANCELLED, and the error carries that state and the backend's reason; or no
\* success was seen before the maximum wait was over.
C26_RetrieverOutcomes ==
    /\ (nextPage > 0 \/ fetched # <<>> \/ qpc \in {"page", "done"})
          => qState.State = "SUCCEEDED"
    /\ FailedBeforePages =>
          /\ fetched = <<>>
          /\ \/ qError \in {StartFailed, ClientError} /\ qState.State # "SUCCEEDED"
             \/ /\ qState.State \in {"FAILED", "CANCELLED"}
                /\ qError.state = qState.State
                /\ qError.reason = IF qState.StateChangeReason = Absent
                                      THEN "Unknown error"
                                      ELSE qState.StateChangeReason
             \/ /\ qError = WaitTimedOut
                /\ qState.State \in {"QUEUED", "RUNNING", Absent}
                /\ qElapsed >= MaxWaitTime
    /\ qState.State \in {"FAILED", "CANCELLED"} => FailedBeforePages
    /\ qState.State = "SUCCEEDED" => qError \in {NoError, ClientError, ParseError}

\* the backend cancelled the query after some polls and gave a reason
C26_Witness ==
    /\ FailedBeforePages
    /\ qElapsed > 0
    /\ qState.State = "CANCELLED"
    /\ qState.StateChangeReason \in Reasons
    /\ qError.reason = qState.StateChangeReason

\* the loop of waitForQueryCompletion is over
WaitOver == qpc \in {"page", "done", "failed"}

\* C27: with the clock advancing by the poll interval per turn, the wait loop
\* ends: by success, by a failure, or by the timeout, which comes only when
\* the time waited has reached the maximum; the query is started once, also
\* after a timeout.
C27_WaitLoopEnds ==
    /\ (qpc = "wait") ~> WaitOver
    /\ [](nStart <= 1)
    /\ [](qError = WaitTimedOut => (qpc = "failed" /\ qElapsed >= MaxWaitTime))

\* the wait ended by timeout exactly at the maximum, the query started once
C27_Witness ==
    /\ qError = WaitTimedOut
    /\ qElapsed = MaxWaitTime
    /\ nStart = 1

\* C28: the object at the dataset's key is absent or holds a line for every
\* example of the run, never fewer; a failed write leaves no object and the
\* run ends without a submission; a submission is made only for a run whose
\* dataset is written in full.
C28_WholeDatasetOrNone ==
    /\ dataset = <<>> \/ dataset = JsonLines(prompts)
    /\ dataset # <<>> =>
          /\ rpc \in {"submit", "exit0", "exit1"}
          /\ Len(dataset) = Len(examples)
    /\ (rpc \in {"submit", "exit0"} \/ submissions # <<>>) =>
          /\ dataset # <<>>
          /\ dataset = JsonLines(prompts)
    /\ Len(submissions) <= 1

\* a run wrote its whole dataset of two examples and submitted it
C28_Witness ==
    /\ rpc = "exit0"
    /\ Len(dataset) = 2
    /\ Len(submissions) = 1

\* C29: any two runs submit different job names and different custom model
\* names.
C29_NamesUniquePerRun ==
    \A i, j \in 1..Len(submissions) :
        i # j =>
           /\ submissions[i].jobName # submissions[j].jobName
           /\ submissions[i].customModelName # submissions[j].customModelName

\* C30: the articleId, publication and publishedDate in an example's metadata
\* are those of the record it was built from, whatever the record's own
\* attributes map holds.
C30_ProvenanceOfSourceRecord ==
    \A i \in DOMAIN results :
        /\ results[i].value.metadata.articleId = examples[i].articleId
        /\ results[i].value.metadata.publication = examples[i].publication
        /\ results[i].value.metadata.publishedDate = examples[i].publishedDate

\* C31: a teacher call that succeeds with empty or whitespace-only text gives
\* an example whose target is the record's original title, that carries no
\* teacherModelError and carries the teacher model's id under teacherModel;
\* and no example built from a cleaned record has an empty target.
C31_BlankAnswerFallsBackToTitle ==
    /\ \A i \in Blank :
          /\ results[i].value.completion = examples[i].title
          /\ ErrorNote(results[i].value) = Absent
          /\ "teacherModel" \in DOMAIN results[i].value.metadata
          /\ results[i].value.metadata.teacherModel = TeacherModelId
    /\ \A i \in DOMAIN results : ~Falsy(results[i].value.completion)

\* C32: in a run that passed the check after cleaning, distillation ends with
\* as many examples as there are cleaned records, which is no fewer than the
\* minimum: the check after distillation never takes its failing branch.
C32_PromptCheckNeverFails ==
    /\ rpc \in {"distill", "loop", "await", "checkPrompts"} =>
          ~(Len(cleanedExamples) < minPromptCount)
    /\ rpc = "checkPrompts" =>
          /\ Len(prompts) = Len(cleanedExamples)
          /\ ~(Len(prompts) < minPromptCount)

\* distillation finished with exactly the minimum of examples, after cleaning
\* dropped a record and a teacher call failed
C32_Witness ==
    /\ rpc = "checkPrompts"
    /\ Len(prompts) = minPromptCount
    /\ Len(cleanedExamples) < Len(rawExamples)
    /\ Failed # {}

\* the object the run put in storage is the whole dataset at the location the
\* save returned
DatasetStored ==
    /\ result # NoResult
    /\ objectKey # NoObject
    /\ result.s3Location = S3Uri(objectKey.Bucket, objectKey.Key)
    /\ dataset # <<>>
    /\ dataset = JsonLines(prompts)

\* C33: the data job submits only after saveTrainingDataset returned, and the
\* request names exactly the location that save returned, which is where the
\* object is; a run whose submission is rejected ends in exit 1 with no
\* submission accepted and with the whole dataset still at its key.
C33_SubmitAfterSave ==
    /\ (rpc \in {"submit", "exit0"} \/ submissions # <<>>) => DatasetStored
    /\ \A i \in 1..Len(submissions) :
          /\ submissions[i].trainingDataConfig.s3Uri = result.s3Location
          /\ submissions[i].trainingDataConfig.s3Uri
                = S3Uri(objectKey.Bucket, objectKey.Key)
    /\ rpc = "exit0" => Len(submissions) = 1
    /\ (rpc = "exit1" /\ result # NoResult) =>
          /\ submissions = <<>>
          /\ DatasetStored

\* a run whose submission was rejected: exit 1, and the dataset of two
\* examples is in storage at the key of the result
C33_Witness ==
    /\ rpc = "exit1"
    /\ DatasetStored
    /\ Len(dataset) = 2
    /\ submissions = <<>>


====
